---------------------------- MODULE Spec2Model ----------------------------
(***************************************************************************)
(* Model of the PDF retrieval pipeline of lhcee3/RAG-Bot:                  *)
(*   src/pdf_processor.py  PDFProcessor  (chunk provenance, statistics)    *)
(*   src/vector_store.py   VectorStore   (lazy creation, search, clear)    *)
(*   src/rag_pipeline.py   RAGPipeline   (retrieve -> generate graph)      *)
(*   src/main.py           FastAPI handlers and the module-level globals   *)
(*                                                                         *)
(* Texts are TLA+ strings, which TLC treats as sequences of characters     *)
(* (Len, \o and SubSeq apply), so slices such as context[:500] keep the    *)
(* numbers of the source.  Python exceptions are modelled as the value of  *)
(* an "exc" field: "" when the call returned normally.                     *)
(***************************************************************************)
EXTENDS Integers, Sequences, FiniteSets, TLC

VARIABLES
    vectorstore,   \* VectorStore.vectorstore of the global vector_store (main.py:38)
    rag_pipeline,  \* the global rag_pipeline (main.py:39): None or a RAGPipeline
    disk,          \* the persist directory: [dirExists, collAlive, docs]
    storageOk,     \* whether the persistent storage can be reached right now
    batch,         \* the /upload-multiple-pdfs request suspended at an await, or None
    resp           \* the response sent by the last step (NoResp if it sent none)

vars == <<vectorstore, rag_pipeline, disk, storageOk, batch, resp>>

(***************************************************************************)
(* Bounds of the model.                                                    *)
(***************************************************************************)
MaxDocs == 6       \* chunks held by the collection
MaxBatch == 2      \* files in one /upload-multiple-pdfs request
MaxSteps == 4      \* nodes one invocation of the graph may run

(***************************************************************************)
(* Program constants.                                                      *)
(***************************************************************************)
TOP_K_RESULTS == 4     \* os.getenv("TOP_K_RESULTS", "4")
ExcerptLen == 500      \* context[:500] in _template_response
SourceLen == 200       \* doc.page_content[:200] in query

\* Python's None: for a value that is otherwise a string (a handle, an llm), and
\* for a value that is otherwise an object (the pipeline, a suspended request)
None == "None"
NoneObj == [none |-> TRUE]

Min(a, b) == IF a < b THEN a ELSE b

\* Python's s[:n]
Slice(s, n) == SubSeq(s, 1, Min(n, Len(s)))

\* Python's s.endswith(t)
EndsWith(s, t) == Len(s) >= Len(t) /\ SubSeq(s, Len(s) - Len(t) + 1, Len(s)) = t

\* Python's (t in s) on strings
Contains(s, t) == \E i \in 1..(Len(s) - Len(t) + 1) : SubSeq(s, i, i + Len(t) - 1) = t

(***************************************************************************)
(* The documents a client can upload.  What PyPDFLoader extracts from a    *)
(* file and how the splitter cuts it are capabilities outside the          *)
(* repository: each file stands for one outcome of them.                   *)
(***************************************************************************)
\* one 600-character chunk
Text100 ==
    "0123456789012345678901234567890123456789012345678901234567890123456789012345678901234567890123456789"
LongText == Text100 \o Text100 \o Text100 \o Text100 \o Text100 \o Text100

Files == {"a.pdf", "bad.pdf", "notes.txt"}

\* loader.load() raises on this file (a corrupt PDF)
ExtractionFails(file) == file = "bad.pdf"

\* text_splitter.split_documents(loader.load()): the chunk texts, in document order
SplitTexts(file) ==
    CASE file = "a.pdf" -> <<"X is a protocol for Y", LongText, "beta">>
      [] file = "b.pdf" -> <<"beta", "gamma">>
      [] OTHER -> <<>>                \* pages without text


(***************************************************************************)
(* PDFProcessor (src/pdf_processor.py).                                    *)
(***************************************************************************)
\* A Document: page_content and the metadata stamped by load_pdf
Chunk(text, i, file) ==
    [page_content |-> text, metadata |-> [chunk_id |-> i, source_file |-> file]]

\* load_pdf without the os.path.exists test: the loader meets the missing path
load_pdf_unchecked(file, exists) ==
    IF ~exists \/ ExtractionFails(file)
    THEN [exc |-> "ExtractionError", chunks |-> <<>>, calls |-> <<"load">>]
    ELSE [exc |-> "",
          chunks |-> [i \in 1..Len(SplitTexts(file)) |->
                         Chunk(SplitTexts(file)[i], i - 1, file)],
          calls |-> <<"load", "split_documents">>]

\* load_pdf(file_path); exists is os.path.exists(file_path).  chunk_id is the
\* index of enumerate (from 0), source_file the basename of the path; calls
\* lists the capabilities the method reached (loader.load, split_documents).
load_pdf(file, exists) ==
    IF ~exists THEN [exc |-> "FileNotFoundError", chunks |-> <<>>, calls |-> <<>>]
    ELSE IF ExtractionFails(file)
    THEN [exc |-> "ExtractionError", chunks |-> <<>>, calls |-> <<"load">>]
    ELSE [exc |-> "",
          chunks |-> [i \in 1..Len(SplitTexts(file)) |->
                         Chunk(SplitTexts(file)[i], i - 1, file)],
          calls |-> <<"load", "split_documents">>]

RECURSIVE SumLen(_)
SumLen(chunks) ==
    IF chunks = <<>> THEN 0 ELSE Len(Head(chunks).page_content) + SumLen(Tail(chunks))

\* get_chunk_info with the average rounded to the nearest integer
get_chunk_info_rounded(chunks) ==
    IF chunks = <<>>
    THEN [total_chunks |-> 0, total_chars |-> 0, avg_chunk_size |-> 0]
    ELSE [total_chunks |-> Len(chunks),
          total_chars |-> SumLen(chunks),
          avg_chunk_size |-> (2 * SumLen(chunks) + Len(chunks)) \div (2 * Len(chunks)),
          sources |-> {chunks[i].metadata.source_file : i \in 1..Len(chunks)}]

\* get_chunk_info(chunks)
get_chunk_info(chunks) ==
    IF chunks = <<>>
    THEN [total_chunks |-> 0, total_chars |-> 0, avg_chunk_size |-> 0]
    ELSE [total_chunks |-> Len(chunks),
          total_chars |-> SumLen(chunks),
          avg_chunk_size |-> SumLen(chunks) \div Len(chunks),
          sources |-> {chunks[i].metadata.source_file : i \in 1..Len(chunks)}]

(***************************************************************************)
(* The embedding capability and the Chroma collection (external).  A       *)
(* Chroma handle is modelled by the collection it is bound to: Cur while   *)
(* that collection exists, Stale once delete_collection has removed it.    *)
(* Within one process there is at most one handle per collection.          *)
(***************************************************************************)
Cur == "cur"
Stale == "stale"

Questions == {"What is X?", "What is beta?"}

\* embed(text): unit vectors scaled by 5 (normalize_embeddings=True)
Embed(text) ==
    CASE text = "What is X?" -> <<5, 0>>
      [] text = "X is a protocol for Y" -> <<4, 3>>
      [] text = LongText -> <<3, 4>>
      [] OTHER -> <<0, 5>>

\* cosine similarity as the dot product of normalized vectors (scaled by 25)
Similarity(q, text) == Embed(q)[1] * Embed(text)[1] + Embed(q)[2] * Embed(text)[2]

\* position i ranks before position j: more similar, or as similar and inserted earlier
Before(docs, q, i, j) ==
    \/ Similarity(q, docs[i].page_content) > Similarity(q, docs[j].page_content)
    \/ /\ Similarity(q, docs[i].page_content) = Similarity(q, docs[j].page_content)
       /\ i <= j

RECURSIVE Ranked(_, _, _, _)
Ranked(docs, q, S, k) ==
    IF S = {} \/ k <= 0 THEN <<>>
    ELSE LET best == CHOOSE i \in S : \A j \in S : Before(docs, q, i, j)
         IN  <<best>> \o Ranked(docs, q, S \ {best}, k - 1)

\* the k nearest chunks of the collection, best first
TopK(docs, q, k) ==
    LET order == Ranked(docs, q, 1..Len(docs), k)
    IN  [n \in 1..Len(order) |-> docs[order[n]]]

\* Chroma(persist_directory=...): opens the directory, get_or_create_collection
ChromaOpen(d) ==
    [dirExists |-> TRUE, collAlive |-> TRUE,
     docs |-> IF d.collAlive THEN d.docs ELSE <<>>]

\* an add that skips the documents the collection already holds
ChromaAdd_dedup(h, d, documents, ok, embOk) ==
    IF h # Cur \/ ~ok THEN [exc |-> "StorageError", disk |-> d]
    ELSE IF ~embOk THEN [exc |-> "CapabilityError", disk |-> d]
    ELSE [exc |-> "",
          disk |-> [d EXCEPT !.docs =
                      d.docs \o SelectSeq(documents,
                                          LAMBDA c : \A i \in 1..Len(d.docs) : d.docs[i] # c)]]

\* an add that writes chunk by chunk: the first chunk is stored before the
\* embedding of a later one fails
ChromaAdd_partial(h, d, documents, ok, embOk) ==
    IF h # Cur \/ ~ok THEN [exc |-> "StorageError", disk |-> d]
    ELSE IF ~embOk
    THEN [exc |-> "CapabilityError",
          disk |-> [d EXCEPT !.docs = d.docs \o SubSeq(documents, 1, 1)]]
    ELSE [exc |-> "", disk |-> [d EXCEPT !.docs = d.docs \o documents]]

\* Chroma.add_documents on handle h: embeds, then writes
ChromaAdd(h, d, documents, ok, embOk) ==
    IF h # Cur \/ ~ok THEN [exc |-> "StorageError", disk |-> d]
    ELSE IF ~embOk THEN [exc |-> "CapabilityError", disk |-> d]
    ELSE [exc |-> "", disk |-> [d EXCEPT !.docs = d.docs \o documents]]

\* Chroma.similarity_search on handle h (h is None when the attribute holds None)
ChromaSearch(h, d, q, k, ok, embOk) ==
    IF h = None THEN [exc |-> "AttributeError", docs |-> <<>>]
    ELSE IF h # Cur \/ ~ok THEN [exc |-> "StorageError", docs |-> <<>>]
    ELSE IF ~embOk THEN [exc |-> "CapabilityError", docs |-> <<>>]
    ELSE [exc |-> "", docs |-> TopK(d.docs, q, k)]

(***************************************************************************)
(* VectorStore (src/vector_store.py).  vs is self.vectorstore, d the       *)
(* persist directory, ok whether the storage answers, embOk whether the    *)
(* embedding capability answers.  Each operator yields the exception       *)
(* raised ("" for none) and the new self.vectorstore and directory.        *)
(***************************************************************************)
\* the two ValueErrors of the class, with their messages
NoDocuments == "ValueError: No documents provided to create store"
NotInitialized == "ValueError: Vector store not initialized. Add documents first."

\* __init__ and _load_existing_store: a failed load is swallowed
VectorStoreInit(d, ok) ==
    IF d.dirExists /\ ok
    THEN [vectorstore |-> Cur, disk |-> ChromaOpen(d)]
    ELSE [vectorstore |-> None, disk |-> d]

\* create_store(documents): Chroma.from_documents opens the collection, then adds
create_store(vs, d, documents, ok, embOk) ==
    IF documents = <<>>
    THEN [exc |-> NoDocuments, vectorstore |-> vs, disk |-> d]
    ELSE IF ~ok
    THEN [exc |-> "StorageError", vectorstore |-> vs, disk |-> d]
    ELSE LET r == ChromaAdd(Cur, ChromaOpen(d), documents, ok, embOk)
         IN  [exc |-> r.exc,
              vectorstore |-> IF r.exc = "" THEN Cur ELSE vs,
              disk |-> r.disk]

\* add_documents(documents)
add_documents(vs, d, documents, ok, embOk) ==
    IF vs = None
    THEN create_store(vs, d, documents, ok, embOk)
    ELSE LET r == ChromaAdd(vs, d, documents, ok, embOk)
         IN  [exc |-> r.exc, vectorstore |-> vs, disk |-> r.disk]

\* an Optional[int] that was not supplied; Python's "k or default" takes the
\* default for None and for 0 alike
NoK == 0

\* k = k or int(os.getenv("TOP_K_RESULTS", "4"))
KOrDefault(k) == IF k = NoK THEN TOP_K_RESULTS ELSE k

\* a similarity_search that answers an uninitialized store with an empty list
similarity_search_empty(vs, d, q, k, ok, embOk) ==
    IF vs = None
    THEN [exc |-> "", docs |-> <<>>]
    ELSE ChromaSearch(vs, d, q, KOrDefault(k), ok, embOk)

\* similarity_search(query, k)
similarity_search(vs, d, q, k, ok, embOk) ==
    IF vs = None
    THEN [exc |-> NotInitialized, docs |-> <<>>]
    ELSE ChromaSearch(vs, d, q, KOrDefault(k), ok, embOk)

\* similarity_search_with_score(query, k): (Document, score) pairs
similarity_search_with_score(vs, d, q, k, ok, embOk) ==
    IF vs = None
    THEN [exc |-> NotInitialized, docs |-> <<>>]
    ELSE LET r == ChromaSearch(vs, d, q, KOrDefault(k), ok, embOk)
         IN  [exc |-> r.exc,
              docs |-> [n \in 1..Len(r.docs) |->
                          <<r.docs[n], Similarity(q, r.docs[n].page_content)>>]]

\* a clear_store without the "if self.vectorstore" test: delete_collection is
\* called on whatever the attribute holds
clear_store_unguarded(vs, d, ok) ==
    IF vs = None
    THEN [exc |-> "AttributeError", vectorstore |-> vs, disk |-> d]
    ELSE IF vs # Cur \/ ~ok
    THEN [exc |-> "StorageError", vectorstore |-> vs, disk |-> d]
    ELSE [exc |-> "", vectorstore |-> None,
          disk |-> [d EXCEPT !.collAlive = FALSE, !.docs = <<>>]]

\* clear_store(): delete_collection, then self.vectorstore = None
clear_store(vs, d, ok) ==
    IF vs # None
    THEN IF vs # Cur \/ ~ok
         THEN [exc |-> "StorageError", vectorstore |-> vs, disk |-> d]
         ELSE [exc |-> "", vectorstore |-> None,
               disk |-> [d EXCEPT !.collAlive = FALSE, !.docs = <<>>]]
    ELSE [exc |-> "", vectorstore |-> vs, disk |-> d]

\* get_store_info()
get_store_info(vs, d, ok) ==
    IF vs = None
    THEN [status |-> "empty", document_count |-> 0]
    ELSE IF vs = Cur /\ ok
    THEN [status |-> "ready", document_count |-> Len(d.docs),
          persist_directory |-> "./chroma_db",
          embedding_model |-> "sentence-transformers/all-MiniLM-L6-v2"]
    ELSE [status |-> "error", error |-> "StorageError"]

(***************************************************************************)
(* RAGPipeline (src/rag_pipeline.py).  A pipeline is the record            *)
(* [vectorstore, llm]: the Chroma handle given to the constructor and the  *)
(* completion capability chosen by _get_default_llm.                       *)
(***************************************************************************)
\* what _get_default_llm can return: a model (Groq or the local pipeline, which
\* _generate_node treats alike), or None
LLMs == {"LLM", None}

\* RAGPipeline(vectorstore=h), llm being the outcome of _get_default_llm
RAGPipeline(h, llm) == [vectorstore |-> h, llm |-> llm]

\* outcomes of one call of the completion capability: a text, or an exception
LLMOutcomes ==
    {[exc |-> "", text |-> "X is a protocol."],
     [exc |-> "TimeoutError", text |-> ""],
     [exc |-> "ConnectionError", text |-> ""],
     [exc |-> "APIError", text |-> ""]}

\* a join that puts the parts in reverse order
RECURSIVE Join_reversed(_)
Join_reversed(parts) ==
    IF parts = <<>> THEN ""
    ELSE IF Len(parts) = 1 THEN parts[1]
    ELSE Join_reversed(Tail(parts)) \o "\n\n" \o parts[1]

\* "\n\n".join(parts)
RECURSIVE Join(_)
Join(parts) ==
    IF parts = <<>> THEN ""
    ELSE IF Len(parts) = 1 THEN parts[1]
    ELSE parts[1] \o "\n\n" \o Join(Tail(parts))

\* _create_prompt(context, question)
create_prompt(context, question) ==
    "You are a helpful assistant that answers questions based on the provided context.\n\nContext:\n"
    \o context \o "\n\nQuestion: " \o question
    \o "\n\nAnswer the question based solely on the context provided above. If the context doesn't contain enough information to answer the question, say so. Be concise and accurate.\n\nAnswer:"

NoInfoMessage ==
    "I couldn't find relevant information in the documents to answer your question."

\* _template_response(context, question)
template_response(context, question) ==
    IF context = ""
    THEN NoInfoMessage
    ELSE "Based on the available documents, here are the relevant excerpts:\n\n"
         \o Slice(context, ExcerptLen)
         \o "...\n\n[Note: Using local processing. For better answers, configure an LLM API key in .env]"

\* query(): initial_state
InitialState(p, question) ==
    [question |-> question, context |-> <<>>, answer |-> "",
     retrieved_docs |-> <<>>, vectorstore |-> p.vectorstore]

\* a _retrieve_node that treats an empty retrieval as an error
retrieve_node_requires_docs(p, state, d, ok, embOk) ==
    LET r == ChromaSearch(p.vectorstore, d, state.question, TOP_K_RESULTS, ok, embOk)
    IN  [exc |-> IF r.exc = "" /\ r.docs = <<>> THEN "ValueError: no documents retrieved"
                 ELSE r.exc,
         state |-> IF r.exc # "" \/ r.docs = <<>> THEN state
                   ELSE [state EXCEPT
                           !.retrieved_docs = r.docs,
                           !.context = [n \in 1..Len(r.docs) |-> r.docs[n].page_content]]]

\* a _retrieve_node that swallows the exception of the search and goes on with
\* an empty retrieval
retrieve_node_swallows(p, state, d, ok, embOk) ==
    LET r == ChromaSearch(p.vectorstore, d, state.question, TOP_K_RESULTS, ok, embOk)
    IN  [exc |-> "",
         state |-> [state EXCEPT
                      !.retrieved_docs = r.docs,
                      !.context = [n \in 1..Len(r.docs) |-> r.docs[n].page_content]]]

\* _retrieve_node(state): an exception of the search propagates
retrieve_node(p, state, d, ok, embOk) ==
    LET r == ChromaSearch(p.vectorstore, d, state.question, TOP_K_RESULTS, ok, embOk)
    IN  [exc |-> r.exc,
         state |-> IF r.exc # "" THEN state
                   ELSE [state EXCEPT
                           !.retrieved_docs = r.docs,
                           !.context = [n \in 1..Len(r.docs) |-> r.docs[n].page_content]]]

\* a _generate_node without the try/except around the completion call
generate_node_raises(p, state, out) ==
    LET context == Join(state.context)
    IN  IF p.llm = None
        THEN [exc |-> "",
              state |-> [state EXCEPT !.answer = template_response(context, state.question)],
              calls |-> 0, fallback |-> TRUE,
              prompt |-> ""]
        ELSE [exc |-> out.exc,
              state |-> IF out.exc # "" THEN state ELSE [state EXCEPT !.answer = out.text],
              calls |-> 1, fallback |-> FALSE,
              prompt |-> create_prompt(context, state.question)]

\* _generate_node(state); out is the outcome of the completion call, if one is made.
\* calls counts the invocations of the capability, fallback tells the template path;
\* the except clause leaves no exception to propagate.
generate_node(p, state, out) ==
    LET context == Join(state.context)
    IN  IF p.llm = None
        THEN [exc |-> "",
              state |-> [state EXCEPT !.answer = template_response(context, state.question)],
              calls |-> 0, fallback |-> TRUE,
              prompt |-> ""]
        ELSE IF out.exc # ""
        THEN [exc |-> "",
              state |-> [state EXCEPT !.answer = template_response(context, state.question)],
              calls |-> 1, fallback |-> TRUE,
              prompt |-> create_prompt(context, state.question)]
        ELSE [exc |-> "",
              state |-> [state EXCEPT !.answer = out.text],
              calls |-> 1, fallback |-> FALSE,
              prompt |-> create_prompt(context, state.question)]

\* a graph whose generate node leads back to retrieve (a retry loop)
build_graph_retry ==
    [entry |-> "retrieve",
     edges |-> [retrieve |-> "generate", generate |-> "retrieve"]]

\* _build_graph(): entry point and edges of the compiled graph
build_graph ==
    [entry |-> "retrieve",
     edges |-> [retrieve |-> "generate", generate |-> "END"]]

\* one node of the graph run on run = [state, node, trace, llmCalls, fallback, exc, prompt],
\* and the edge out of it followed; trace lists the stages executed, out is the
\* outcome of the completion capability when it is called
run_node(p, run, d, ok, embOk, out) ==
    IF run.node = "retrieve"
    THEN LET r == retrieve_node(p, run.state, d, ok, embOk)
         IN  [run EXCEPT !.state = r.state,
                         !.exc = r.exc,
                         !.node = build_graph.edges[run.node],
                         !.trace = Append(@, "RETRIEVE")]
    ELSE LET g == generate_node(p, run.state, out)
         IN  [run EXCEPT !.state = g.state,
                         !.exc = g.exc,
                         !.node = build_graph.edges[run.node],
                         !.trace = Append(@, "GENERATE"),
                         !.llmCalls = @ + g.calls,
                         !.fallback = g.fallback,
                         !.prompt = g.prompt]

\* graph.invoke: runs nodes until END or an exception; fuel is the number of
\* nodes the graph library lets one invocation run
RECURSIVE graph_invoke(_, _, _, _, _, _, _)
graph_invoke(p, run, d, ok, embOk, out, fuel) ==
    IF run.node = "END" \/ run.exc # "" THEN run
    ELSE IF fuel = 0 THEN [run EXCEPT !.exc = "GraphRecursionError"]
    ELSE graph_invoke(p, run_node(p, run, d, ok, embOk, out), d, ok, embOk, out, fuel - 1)

\* the response query() assembles from the final state
QueryResult(question, state) ==
    [question |-> question,
     answer |-> state.answer,
     sources |-> [n \in 1..Len(state.retrieved_docs) |->
                    [content |-> Slice(state.retrieved_docs[n].page_content, SourceLen) \o "...",
                     metadata |-> state.retrieved_docs[n].metadata]]]

\* what query() hands back for a finished run of the graph: the exception that
\* escaped, or the result, with the record of the run
QueryReturn(question, run) ==
    [exc |-> run.exc,
     result |-> IF run.exc = "" THEN QueryResult(question, run.state) ELSE NoneObj,
     run |-> [trace |-> IF run.exc = "" THEN Append(run.trace, "DONE") ELSE run.trace,
              llmCalls |-> run.llmCalls, fallback |-> run.fallback,
              context |-> run.state.context, prompt |-> run.prompt]]

\* query(question): the run of the graph from the initial state, and the result
query(p, question, d, ok, embOk, out) ==
    QueryReturn(question,
                graph_invoke(p,
                    [state |-> InitialState(p, question), node |-> build_graph.entry,
                     trace |-> <<"START">>, llmCalls |-> 0, fallback |-> FALSE, exc |-> "",
                     prompt |-> ""],
                    d, ok, embOk, out, MaxSteps))

(***************************************************************************)
(* The FastAPI handlers (src/main.py) as functions of the globals.  Each   *)
(* yields the HTTP response (code, detail, body) and the new globals.  A   *)
(* handler runs without interruption up to its next await.                 *)
(***************************************************************************)
NoBody == NoneObj

\* upload_pdf(file): llm is what _get_default_llm yields if a pipeline is built
upload_pdf(file, vs, p, d, ok, embOk, llm) ==
    IF ~EndsWith(file, ".pdf")
    THEN [code |-> 400, detail |-> "Only PDF files are allowed", body |-> NoBody,
          vectorstore |-> vs, rag_pipeline |-> p, disk |-> d]
    ELSE LET l == load_pdf(file, TRUE)
             a == add_documents(vs, d, l.chunks, ok, embOk)
             info == get_chunk_info(l.chunks)
         IN  IF l.exc # ""
             THEN [code |-> 500, detail |-> "Error processing PDF: " \o l.exc,
                   body |-> NoBody,
                   vectorstore |-> vs, rag_pipeline |-> p, disk |-> d]
             ELSE IF a.exc # ""
             THEN [code |-> 500, detail |-> "Error processing PDF: " \o a.exc,
                   body |-> NoBody,
                   vectorstore |-> a.vectorstore, rag_pipeline |-> p, disk |-> a.disk]
             ELSE [code |-> 200, detail |-> "", 
                   body |-> [filename |-> file,
                             chunks_created |-> info.total_chunks,
                             total_characters |-> info.total_chars,
                             avg_chunk_size |-> info.avg_chunk_size],
                   vectorstore |-> a.vectorstore,
                   rag_pipeline |-> IF p = NoneObj THEN RAGPipeline(a.vectorstore, llm) ELSE p,
                   disk |-> a.disk]

\* an upload_multiple_pdfs that builds the pipeline also when the request fails
RECURSIVE upload_multiple_pdfs_always_builds(_, _, _, _, _, _, _)
upload_multiple_pdfs_always_builds(b, vs, p, d, ok, embOk, llm) ==
    IF b.i > Len(b.files)
    THEN [at |-> "return", code |-> 200, detail |-> "",
          body |-> [files |-> b.processed_files, total_chunks |-> b.total_chunks],
          batch |-> b, vectorstore |-> vs,
          rag_pipeline |-> IF p = NoneObj THEN RAGPipeline(vs, llm) ELSE p,
          disk |-> d]
    ELSE IF ~EndsWith(b.files[b.i], ".pdf")
    THEN upload_multiple_pdfs_always_builds([b EXCEPT !.i = b.i + 1], vs, p, d, ok, embOk, llm)
    ELSE LET l == load_pdf(b.files[b.i], TRUE)
             a == add_documents(vs, d, l.chunks, ok, embOk)
         IN  IF l.exc # ""
             THEN [at |-> "raise", code |-> 500,
                   detail |-> "Error processing PDFs: " \o l.exc, body |-> NoBody,
                   batch |-> b, vectorstore |-> vs,
                   rag_pipeline |-> IF p = NoneObj THEN RAGPipeline(vs, llm) ELSE p,
                   disk |-> d]
             ELSE IF a.exc # ""
             THEN [at |-> "raise", code |-> 500,
                   detail |-> "Error processing PDFs: " \o a.exc, body |-> NoBody,
                   batch |-> b, vectorstore |-> a.vectorstore,
                   rag_pipeline |-> IF p = NoneObj THEN RAGPipeline(vs, llm) ELSE p,
                   disk |-> a.disk]
             ELSE [at |-> "await", code |-> 0, detail |-> "", body |-> NoBody,
                   batch |-> [b EXCEPT !.i = b.i + 1,
                                       !.processed_files = Append(@, b.files[b.i]),
                                       !.total_chunks = @ + Len(l.chunks)],
                   vectorstore |-> a.vectorstore, rag_pipeline |-> p, disk |-> a.disk]

\* upload_multiple_pdfs(files), from position b.i of the loop up to the next
\* await file.close(), the return, or the exception that ends the request.
\* b = [files, i, processed_files, total_chunks]
RECURSIVE upload_multiple_pdfs(_, _, _, _, _, _, _)
upload_multiple_pdfs(b, vs, p, d, ok, embOk, llm) ==
    IF b.i > Len(b.files)
    THEN [at |-> "return", code |-> 200, detail |-> "",
          body |-> [files |-> b.processed_files, total_chunks |-> b.total_chunks],
          batch |-> b, vectorstore |-> vs,
          rag_pipeline |-> IF p = NoneObj THEN RAGPipeline(vs, llm) ELSE p,
          disk |-> d]
    ELSE IF ~EndsWith(b.files[b.i], ".pdf")
    THEN upload_multiple_pdfs([b EXCEPT !.i = b.i + 1], vs, p, d, ok, embOk, llm)
    ELSE LET l == load_pdf(b.files[b.i], TRUE)
             a == add_documents(vs, d, l.chunks, ok, embOk)
         IN  IF l.exc # ""
             THEN [at |-> "raise", code |-> 500,
                   detail |-> "Error processing PDFs: " \o l.exc, body |-> NoBody,
                   batch |-> b, vectorstore |-> vs, rag_pipeline |-> p, disk |-> d]
             ELSE IF a.exc # ""
             THEN [at |-> "raise", code |-> 500,
                   detail |-> "Error processing PDFs: " \o a.exc, body |-> NoBody,
                   batch |-> b, vectorstore |-> a.vectorstore, rag_pipeline |-> p,
                   disk |-> a.disk]
             ELSE [at |-> "await", code |-> 0, detail |-> "", body |-> NoBody,
                   batch |-> [b EXCEPT !.i = b.i + 1,
                                       !.processed_files = Append(@, b.files[b.i]),
                                       !.total_chunks = @ + Len(l.chunks)],
                   vectorstore |-> a.vectorstore, rag_pipeline |-> p, disk |-> a.disk]

\* a clear_vectorstore that forgets to reset the global rag_pipeline
clear_vectorstore_keeps_pipeline(vs, p, d, ok) ==
    LET c == clear_store(vs, d, ok)
    IN  IF c.exc # ""
        THEN [code |-> 500, detail |-> "Error clearing store: " \o c.exc,
              vectorstore |-> c.vectorstore, rag_pipeline |-> p, disk |-> c.disk]
        ELSE [code |-> 200, detail |-> "Vector store and uploads cleared",
              vectorstore |-> c.vectorstore, rag_pipeline |-> p, disk |-> c.disk]

\* clear_vectorstore(): an exception of clear_store leaves rag_pipeline as it was
clear_vectorstore(vs, p, d, ok) ==
    LET c == clear_store(vs, d, ok)
    IN  IF c.exc # ""
        THEN [code |-> 500, detail |-> "Error clearing store: " \o c.exc,
              vectorstore |-> c.vectorstore, rag_pipeline |-> p, disk |-> c.disk]
        ELSE [code |-> 200, detail |-> "Vector store and uploads cleared",
              vectorstore |-> c.vectorstore, rag_pipeline |-> NoneObj, disk |-> c.disk]

\* get_status(): the pipeline decides the top-level status, the store the details
get_status(vs, p, d, ok) ==
    [status |-> IF p # NoneObj THEN "ready" ELSE "no_documents",
     message |-> IF p # NoneObj THEN "System ready" ELSE "Upload documents to start",
     details |-> get_store_info(vs, d, ok)]

NotReadyDetail == "No documents loaded. Please upload a PDF first."

NoRun == [trace |-> <<>>, llmCalls |-> 0, fallback |-> FALSE, context |-> <<>>, prompt |-> ""]

\* chat(): the try block around rag_pipeline.query, r being what query() did
ChatReturn(r) ==
    IF r.exc # ""
    THEN [code |-> 500, detail |-> "Error generating answer: " \o r.exc,
          body |-> NoBody, run |-> r.run]
    ELSE [code |-> 200, detail |-> "", body |-> r.result, run |-> r.run]

\* chat(request): request = [question, top_k]
chat(request, p, d, ok, embOk, out) ==
    IF p = NoneObj
    THEN [code |-> 400, detail |-> NotReadyDetail, body |-> NoBody, run |-> NoRun]
    ELSE ChatReturn(query(p, request.question, d, ok, embOk, out))

(***************************************************************************)
(* The state machine: one action per handler segment, per graph node and   *)
(* per event of the environment.                                           *)
(***************************************************************************)
\* a response: the request (op, arg), the HTTP code, detail and body, and for
\* /chat the run of the graph (stages executed, calls of the capability)
Resp(op, arg, code, detail, body, run) ==
    [op |-> op, arg |-> arg, code |-> code, detail |-> detail, body |-> body, run |-> run]

NoResp == Resp("", "", 0, "", NoBody, NoRun)

\* non-empty sequences of at most n files
RECURSIVE SeqsUpTo(_)
SeqsUpTo(n) ==
    IF n = 0 THEN {<<>>}
    ELSE SeqsUpTo(n - 1) \cup {Append(s, f) : s \in {t \in SeqsUpTo(n - 1) : Len(t) = n - 1}, f \in Files}

Batches == SeqsUpTo(MaxBatch) \ {<<>>}

\* module level of main.py on a fresh deployment: VectorStore() finds no directory
Init ==
    /\ disk = [dirExists |-> FALSE, collAlive |-> FALSE, docs |-> <<>>]
    /\ storageOk = TRUE
    /\ vectorstore = VectorStoreInit(disk, storageOk).vectorstore
    /\ rag_pipeline = NoneObj
    /\ batch = NoneObj
    /\ resp = NoResp

\* The inputs of a step that the handler never reads are fixed (the capability
\* answers, no model is found), so that each outcome is generated once: no model
\* is looked for while a pipeline exists, nothing is embedded while the storage
\* is unreachable, and otherwise r is the outcome with the inputs embOk and llm,
\* r0 the outcome with the fixed ones.
Read(embOk, llm) ==
    /\ (rag_pipeline # NoneObj => llm = None)
    /\ (~storageOk => embOk)

Relevant(embOk, llm, r, r0) ==
    (embOk /\ llm = None) \/ r # r0

\* POST /upload-pdf
UploadPdf ==
    \E file \in Files, embOk \in BOOLEAN, llm \in LLMs :
        LET r == upload_pdf(file, vectorstore, rag_pipeline, disk, storageOk, embOk, llm)
        IN  /\ Read(embOk, llm)
            /\ Len(r.disk.docs) <= MaxDocs
            /\ Relevant(embOk, llm, r, upload_pdf(file, vectorstore, rag_pipeline, disk,
                                                  storageOk, TRUE, None))
            /\ vectorstore' = r.vectorstore
            /\ rag_pipeline' = r.rag_pipeline
            /\ disk' = r.disk
            /\ resp' = Resp("upload_pdf", file, r.code, r.detail, r.body, NoRun)
            /\ UNCHANGED <<storageOk, batch>>

\* the effect of one segment of upload_multiple_pdfs
BatchSegment(b, embOk, llm) ==
    LET r == upload_multiple_pdfs(b, vectorstore, rag_pipeline, disk, storageOk, embOk, llm)
    IN  /\ Read(embOk, llm)
        /\ Len(r.disk.docs) <= MaxDocs
        /\ Relevant(embOk, llm, r, upload_multiple_pdfs(b, vectorstore, rag_pipeline, disk,
                                                        storageOk, TRUE, None))
        /\ vectorstore' = r.vectorstore
        /\ rag_pipeline' = r.rag_pipeline
        /\ disk' = r.disk
        /\ batch' = IF r.at = "await" THEN r.batch ELSE NoneObj
        /\ resp' = IF r.at = "await" THEN NoResp
                   ELSE Resp("upload_multiple_pdfs", b.files, r.code, r.detail, r.body,
                             [visited |-> Min(r.batch.i, Len(b.files)),
                              processed_files |-> r.batch.processed_files])
        /\ UNCHANGED storageOk

\* POST /upload-multiple-pdfs: from the start of the handler to its first await
UploadMultipleStart ==
    \E files \in Batches, embOk \in BOOLEAN, llm \in LLMs :
        /\ batch = NoneObj
        /\ BatchSegment([files |-> files, i |-> 1, processed_files |-> <<>>,
                         total_chunks |-> 0], embOk, llm)

\* the suspended upload_multiple_pdfs resumes after await file.close()
UploadMultipleResume ==
    \E embOk \in BOOLEAN, llm \in LLMs :
        /\ batch # NoneObj
        /\ BatchSegment(batch, embOk, llm)

\* the response of /chat to the request arg, r being what the handler returned
ChatResp(arg, r) == Resp("chat", arg, r.code, r.detail, r.body, r.run)

\* a /chat that writes the truncated source texts back to the stored chunks
Chat_truncates_stored ==
    \E question \in Questions :
        /\ resp' = ChatResp([question |-> question, top_k |-> NoK,
                             embOk |-> TRUE, llm_exc |-> ""],
                            chat([question |-> question, top_k |-> NoK], rag_pipeline,
                                 disk, storageOk, TRUE, [exc |-> "", text |-> "X is a protocol."]))
        /\ disk' = [disk EXCEPT !.docs =
                       [n \in 1..Len(disk.docs) |->
                           [disk.docs[n] EXCEPT !.page_content = Slice(@, SourceLen)]]]
        /\ UNCHANGED <<vectorstore, rag_pipeline, storageOk, batch>>

\* POST /chat
Chat ==
    \E question \in Questions, top_k \in {NoK, 1}, embOk \in BOOLEAN, out \in LLMOutcomes :
        \* inputs of capabilities that are not called are fixed (see Relevant)
        /\ (rag_pipeline = NoneObj \/ rag_pipeline.vectorstore # Cur \/ ~storageOk => embOk)
        /\ (rag_pipeline = NoneObj \/ ~embOk => out.exc = "")
        /\ (rag_pipeline # NoneObj /\ rag_pipeline.llm = None => out.exc = "")
        /\ resp' = ChatResp([question |-> question, top_k |-> top_k,
                             embOk |-> embOk, llm_exc |-> out.exc],
                            chat([question |-> question, top_k |-> top_k], rag_pipeline,
                                 disk, storageOk, embOk, out))
        /\ UNCHANGED <<vectorstore, rag_pipeline, disk, storageOk, batch>>

\* DELETE /clear; the response notes whether the previous step was a successful
\* clear as well
Clear ==
    LET r == clear_vectorstore(vectorstore, rag_pipeline, disk, storageOk)
    IN  /\ vectorstore' = r.vectorstore
        /\ rag_pipeline' = r.rag_pipeline
        /\ disk' = r.disk
        /\ resp' = Resp("clear", "", r.code, r.detail, NoBody,
                        [repeated |-> resp.op = "clear" /\ resp.code = 200])
        /\ UNCHANGED <<storageOk, batch>>

\* GET /status
GetStatus ==
    /\ resp' = Resp("get_status", "", 200, "",
                    get_status(vectorstore, rag_pipeline, disk, storageOk), NoRun)
    /\ UNCHANGED <<vectorstore, rag_pipeline, disk, storageOk, batch>>

\* the process is restarted: the module level of main.py runs again
Restart ==
    LET v == VectorStoreInit(disk, storageOk)
    IN  /\ vectorstore' = v.vectorstore
        /\ disk' = v.disk
        /\ rag_pipeline' = NoneObj
        /\ batch' = NoneObj
        /\ resp' = NoResp
        /\ UNCHANGED storageOk

\* the persistent storage becomes unreachable, or reachable again
StorageFail ==
    /\ storageOk
    /\ storageOk' = FALSE
    /\ resp' = NoResp
    /\ UNCHANGED <<vectorstore, rag_pipeline, disk, batch>>

StorageRecover ==
    /\ ~storageOk
    /\ storageOk' = TRUE
    /\ resp' = NoResp
    /\ UNCHANGED <<vectorstore, rag_pipeline, disk, batch>>

Next ==
    \/ UploadPdf
    \/ UploadMultipleStart
    \/ UploadMultipleResume
    \/ Chat
    \/ Clear
    \/ GetStatus
    \/ Restart
    \/ StorageFail
    \/ StorageRecover

Spec == Init /\ [][Next]_vars

(***************************************************************************)
(* The VectorStore used directly, as a library: one action per public      *)
(* method.  The pipeline and the handlers take no part (rag_pipeline and   *)
(* batch stay None); resp holds the call and what it returned or raised.   *)
(***************************************************************************)
\* the outcome of a method call: the exception raised ("" for none) and the result
StoreResp(op, arg, exc, result) == Resp(op, arg, 0, exc, result, NoRun)

\* the chunk lists a caller passes: none, one chunk, the chunks of a.pdf
DocLists == {<<>>, <<Chunk("beta", 0, "b.pdf")>>, load_pdf("a.pdf", TRUE).chunks}

\* the values of k a caller passes (NoK: the argument is left out)
Ks == {NoK, 1, 2}

\* the state a store method leaves behind, r being what the method did
StoreEffect(op, arg, r) ==
    /\ Len(r.disk.docs) <= MaxDocs
    /\ vectorstore' = r.vectorstore
    /\ disk' = r.disk
    /\ resp' = StoreResp(op, arg, r.exc, NoBody)
    /\ UNCHANGED <<rag_pipeline, storageOk, batch>>

\* the outcome of a search, r being what the method did
SearchEffect(op, arg, r) ==
    /\ resp' = StoreResp(op, arg, r.exc, [docs |-> r.docs])
    /\ UNCHANGED <<vectorstore, rag_pipeline, disk, storageOk, batch>>

\* vector_store.add_documents(documents)
StoreAddDocuments ==
    \E documents \in DocLists, embOk \in BOOLEAN :
        /\ (~storageOk => embOk)
        /\ StoreEffect("add_documents", [documents |-> documents, embOk |-> embOk],
                       add_documents(vectorstore, disk, documents, storageOk, embOk))

\* vector_store.create_store(documents)
StoreCreateStore ==
    \E documents \in DocLists, embOk \in BOOLEAN :
        /\ (~storageOk => embOk)
        /\ StoreEffect("create_store", [documents |-> documents, embOk |-> embOk],
                       create_store(vectorstore, disk, documents, storageOk, embOk))

\* vector_store.similarity_search(query, k)
StoreSimilaritySearch ==
    \E q \in Questions, k \in Ks, embOk \in BOOLEAN :
        /\ (vectorstore = None \/ ~storageOk => embOk)
        /\ SearchEffect("similarity_search", [query |-> q, k |-> k, embOk |-> embOk],
                        similarity_search(vectorstore, disk, q, k, storageOk, embOk))

\* vector_store.similarity_search_with_score(query, k)
StoreSimilaritySearchWithScore ==
    \E q \in Questions, k \in Ks, embOk \in BOOLEAN :
        /\ (vectorstore = None \/ ~storageOk => embOk)
        /\ SearchEffect("similarity_search_with_score",
                        [query |-> q, k |-> k, embOk |-> embOk],
                        similarity_search_with_score(vectorstore, disk, q, k, storageOk, embOk))

\* vector_store.clear_store()
StoreClearStore ==
    LET r == clear_store(vectorstore, disk, storageOk)
    IN  /\ vectorstore' = r.vectorstore
        /\ disk' = r.disk
        /\ resp' = StoreResp("clear_store", "", r.exc, NoBody)
        /\ UNCHANGED <<rag_pipeline, storageOk, batch>>

\* a new VectorStore() on the same persist directory
StoreRestart ==
    LET v == VectorStoreInit(disk, storageOk)
    IN  /\ vectorstore' = v.vectorstore
        /\ disk' = v.disk
        /\ resp' = NoResp
        /\ UNCHANGED <<rag_pipeline, storageOk, batch>>

NextStore ==
    \/ StoreAddDocuments
    \/ StoreCreateStore
    \/ StoreSimilaritySearch
    \/ StoreSimilaritySearchWithScore
    \/ StoreClearStore
    \/ StoreRestart
    \/ StorageFail
    \/ StorageRecover

SpecStore == Init /\ [][NextStore]_vars

(***************************************************************************)
(* Properties.  Spec is the service (the handlers of main.py), SpecStore   *)
(* the VectorStore used directly.  A property about a request reads resp,  *)
(* the response of the step just taken; /chat and the searches change no   *)
(* other variable, so the state beside resp is the one the request saw.    *)
(***************************************************************************)
\* get_store_info()["status"] in the current state
Status == get_store_info(vectorstore, disk, storageOk).status

\* the stages of a query that ran to its end
FullRun == <<"START", "RETRIEVE", "GENERATE", "DONE">>

IsPrefix(s, t) == Len(s) <= Len(t) /\ SubSeq(t, 1, Len(s)) = s

\* the step just taken was a /chat request, rejected as not ready
ChatNotReady == resp.op = "chat" /\ resp.code = 400 /\ resp.detail = NotReadyDetail

\* in the current state every /chat request is rejected as not ready
QueryRejected ==
    \A q \in Questions, embOk \in BOOLEAN :
        chat([question |-> q, top_k |-> NoK], rag_pipeline, disk, storageOk, embOk,
             [exc |-> "", text |-> "X is a protocol."]).detail = NotReadyDetail

\* the step just taken was a successful upload request
UploadSucceeded == resp.op \in {"upload_pdf", "upload_multiple_pdfs"} /\ resp.code = 200

\* a file that load_pdf turns into chunks
ValidPdf(file) == EndsWith(file, ".pdf") /\ ~ExtractionFails(file)

\* C1: a query is rejected as not ready exactly when the index status is not
\* ready; stated here in the direction the claim singles out: a /chat request
\* issued while get_store_info() reports status "ready" (and no upload request
\* is in flight) is never rejected with the "No documents loaded" error.
C1_ReadyNeverRejected ==
    (resp.op = "chat" /\ Status = "ready" /\ batch = NoneObj) => ~ChatNotReady

\* C2: a /chat request issued while the index status is "empty" fails with the
\* not-ready error and executes neither the RETRIEVE nor the GENERATE stage.
C2_EmptyQueryNotReady ==
    (resp.op = "chat" /\ Status = "empty") => (ChatNotReady /\ resp.run.trace = <<>>)

\* C3: on a store whose self.vectorstore is None (never created, failed to load,
\* cleared), similarity_search and similarity_search_with_score raise the
\* "not initialized" ValueError for every query and every k, and return no list.
C3_SearchUninitialized ==
    /\ vectorstore = None =>
         \A q \in Questions, k \in 0..(TOP_K_RESULTS + 1), embOk \in BOOLEAN :
            /\ similarity_search(vectorstore, disk, q, k, storageOk, embOk).exc
                 = NotInitialized
            /\ similarity_search_with_score(vectorstore, disk, q, k, storageOk, embOk).exc
                 = NotInitialized
    /\ (resp.op \in {"similarity_search", "similarity_search_with_score"}
          /\ vectorstore = None) => resp.detail = NotInitialized

\* a search with scores was refused on a store that had been cleared
C3_Witness ==
    /\ resp.op = "similarity_search_with_score"
    /\ resp.detail = NotInitialized
    /\ disk.dirExists /\ ~disk.collAlive

C5_ClearIdempotent ==
    /\ [][(resp.op = "clear" /\ resp.code = 200 /\ resp'.op = "clear") =>
            /\ resp'.code = 200
            /\ <<vectorstore, rag_pipeline, disk>>' = <<vectorstore, rag_pipeline, disk>>
            /\ Status' = "empty"
            /\ rag_pipeline' = NoneObj]_vars
    /\ [][(Status = "empty" /\ resp'.op = "clear") => resp'.code = 200]_vars

\* a second successful clear in a row, on a store that had been created
C5_Witness ==
    /\ resp.op = "clear" /\ resp.code = 200
    /\ resp.run.repeated
    /\ disk.dirExists

\* C6: add_documents([]) returns without error and leaves self.vectorstore and
\* the collection as they were, on an initialized and on an uninitialized store
\* (the storage and the embedding capability being available).
C6_EmptyUpsertNoOp ==
    [][(resp'.op = "add_documents" /\ resp'.arg.documents = <<>>
          /\ storageOk /\ resp'.arg.embOk) =>
         /\ resp'.detail = ""
         /\ vectorstore' = vectorstore
         /\ disk' = disk]_vars

\* C7: when the extraction of one document of a batch fails, every valid
\* document of the batch, before and after the failing one, is still processed.
C7_BatchSurvivesFailure ==
    (resp.op = "upload_multiple_pdfs"
       /\ resp.detail \in {"", "Error processing PDFs: ExtractionError"}) =>
        \A i \in 1..Len(resp.arg) :
            ValidPdf(resp.arg[i]) =>
                \E j \in 1..Len(resp.run.processed_files) :
                    resp.run.processed_files[j] = resp.arg[i]

\* C8: when the completion capability is called and fails (timeout, connection
\* error, API error), the query still ends DONE with a 200 response
\* {question, answer, sources}: the answer is the fallback text, holding the
\* first 500 characters of the joined context and no more of it (the fixed
\* message if there is no context).
C8_CompletionFailureFallsBack ==
    (resp.op = "chat" /\ resp.run.llmCalls > 0 /\ resp.arg.llm_exc # "") =>
        /\ resp.code = 200
        /\ resp.run.trace = FullRun
        /\ resp.body.question = resp.arg.question
        /\ Len(resp.body.sources) = Len(resp.run.context)
        /\ IF resp.run.context = <<>>
           THEN resp.body.answer = NoInfoMessage
           ELSE /\ Contains(resp.body.answer, Slice(Join(resp.run.context), ExcerptLen))
                /\ Len(Join(resp.run.context)) > ExcerptLen =>
                     ~Contains(resp.body.answer,
                               Slice(Join(resp.run.context), ExcerptLen + 1))

\* the completion call timed out on a context of more than 500 characters
C8_Witness ==
    /\ resp.op = "chat" /\ resp.code = 200
    /\ resp.arg.llm_exc = "TimeoutError"
    /\ resp.run.llmCalls = 1
    /\ Len(Join(resp.run.context)) > ExcerptLen

\* C9: a query whose retrieval runs on an empty collection (the pipeline's
\* handle is live, storage and embedding answer) gets a 200 response: GENERATE
\* runs with an empty context, the run ends DONE with empty sources, and on the
\* fallback path the answer is the fixed "no relevant information" message.
C9_EmptyRetrievalProceeds ==
    (/\ resp.op = "chat"
     /\ rag_pipeline # NoneObj
     /\ rag_pipeline.vectorstore = Cur
     /\ storageOk /\ resp.arg.embOk
     /\ disk.docs = <<>>) =>
        /\ resp.code = 200
        /\ resp.run.trace = FullRun
        /\ resp.run.context = <<>>
        /\ resp.body.sources = <<>>
        /\ resp.run.fallback => resp.body.answer = NoInfoMessage

\* a query on an empty collection answered by the fallback message
C9_Witness ==
    /\ resp.op = "chat" /\ resp.code = 200
    /\ disk.docs = <<>>
    /\ resp.body.sources = <<>>
    /\ resp.run.fallback
    /\ resp.body.answer = NoInfoMessage

\* C10: the stages a query executes are a prefix of START, RETRIEVE, GENERATE,
\* DONE, each at most once and in that order; a query that is answered executed
\* exactly that sequence; the completion capability is called at most once, and
\* only in a run that reached GENERATE.
C10_FixedSequence ==
    resp.op = "chat" =>
        /\ IsPrefix(resp.run.trace, FullRun)
        /\ resp.code = 200 <=> resp.run.trace = FullRun
        /\ resp.code = 400 <=> resp.run.trace = <<>>
        /\ resp.run.llmCalls <= 1
        /\ resp.run.llmCalls = 1 => Len(resp.run.trace) >= 3

\* a query answered by the completion capability, called once
C10_Witness ==
    /\ resp.op = "chat" /\ resp.code = 200
    /\ resp.run.trace = FullRun
    /\ resp.run.llmCalls = 1
    /\ ~resp.run.fallback

\* C11: when a /chat request supplies top_k = n (a positive integer), the
\* retrieval uses k = n, so the response holds at most n sources.
C11_TopKHonoured ==
    (resp.op = "chat" /\ resp.code = 200 /\ resp.arg.top_k # NoK) =>
        Len(resp.body.sources) <= resp.arg.top_k

\* what get_store_info() reports on a new VectorStore() built now on the same
\* persist directory
RestartedInfo ==
    get_store_info(VectorStoreInit(disk, storageOk).vectorstore,
                   VectorStoreInit(disk, storageOk).disk, storageOk)

\* C12: the index state survives a restart; stated for the case the claim names:
\* right after a clear_store that deleted the collection (the storage being
\* reachable), a new VectorStore on the same location reports the status and
\* document_count the index reports now.
C12_RestartKeepsInfo ==
    (resp.op = "clear_store" /\ resp.detail = "" /\ storageOk
       /\ disk.dirExists /\ ~disk.collAlive) =>
        /\ RestartedInfo.status = Status
        /\ RestartedInfo.document_count
             = get_store_info(vectorstore, disk, storageOk).document_count

\* C13: no DELETE /clear takes effect between the start and the completion of
\* an ingest request: while /upload-multiple-pdfs is suspended at an await, no
\* step is a successful clear.
C13_ClearExclusive ==
    [][batch # NoneObj => ~(resp'.op = "clear" /\ resp'.code = 200)]_vars

\* C14: in every state GET /status returns store details whose status is one of
\* empty, ready, error, together with a document_count that is a non-negative
\* integer (present for all three values).
C14_StatusShape ==
    resp.op = "get_status" =>
        /\ resp.body.details.status \in {"empty", "ready", "error"}
        /\ "document_count" \in DOMAIN resp.body.details
        /\ resp.body.details.document_count \in Nat

\* C15: get_store_info() classifies the index accurately: status "empty" only
\* when nothing is persisted (never initialized, or cleared), and status
\* "error" when persisted chunks exist but the storage cannot be reached,
\* the case of a store that could not be loaded at startup included.
C15_InfoAccurate ==
    /\ Status = "empty" => disk.docs = <<>>
    /\ (~storageOk /\ disk.docs # <<>>) => Status = "error"

(***************************************************************************)
(* The chunker: PDFProcessor.__init__ and the RecursiveCharacterText-      *)
(* Splitter it configures (pdf_processor.py:31-39), with length_function   *)
(* len, the separators "\n\n", "\n", ". ", " ", "" and the library's       *)
(* defaults keep_separator = True and strip_whitespace = True.  The        *)
(* operators below follow the library's split_text step by step.           *)
(***************************************************************************)
DEFAULT_CHUNK_SIZE == 1000
DEFAULT_CHUNK_OVERLAP == 200

\* an optional int argument: <<>> when the caller leaves it out, <<n>> for n
NotSupplied == <<>>
Supplied(n) == <<n>>

\* Python's "x or default": the default replaces None and every falsy x (0)
OrDefault(x, default) == IF x = NotSupplied \/ x[1] = 0 THEN default ELSE x[1]

Separators == <<"\n\n", "\n", ". ", " ", "">>

\* RecursiveCharacterTextSplitter(chunk_size, chunk_overlap, ...): the
\* constructor rejects an overlap larger than the chunk size
TextSplitterInit(chunk_size, chunk_overlap) ==
    IF chunk_overlap > chunk_size
    THEN [exc |-> "ValueError", chunk_size |-> chunk_size, chunk_overlap |-> chunk_overlap]
    ELSE [exc |-> "", chunk_size |-> chunk_size, chunk_overlap |-> chunk_overlap]

\* PDFProcessor(chunk_size, chunk_overlap): the configuration the object holds,
\* or the exception of the splitter's constructor
PDFProcessor(chunk_size, chunk_overlap) ==
    TextSplitterInit(OrDefault(chunk_size, DEFAULT_CHUNK_SIZE),
                     OrDefault(chunk_overlap, DEFAULT_CHUNK_OVERLAP))

\* str.strip(): leading and trailing whitespace removed
Whitespace == {" ", "\n"}

RECURSIVE lstrip(_)
lstrip(s) ==
    IF Len(s) > 0 /\ SubSeq(s, 1, 1) \in Whitespace THEN lstrip(SubSeq(s, 2, Len(s))) ELSE s

RECURSIVE rstrip(_)
rstrip(s) ==
    IF Len(s) > 0 /\ SubSeq(s, Len(s), Len(s)) \in Whitespace
    THEN rstrip(SubSeq(s, 1, Len(s) - 1)) ELSE s

strip(s) == rstrip(lstrip(s))

\* the position of the first occurrence of sep in text (sep occurs in text)
Find(text, sep) ==
    CHOOSE i \in 1..(Len(text) - Len(sep) + 1) :
        /\ SubSeq(text, i, i + Len(sep) - 1) = sep
        /\ \A j \in 1..(i - 1) : SubSeq(text, j, j + Len(sep) - 1) # sep

\* re.split(sep, text): the pieces between the occurrences of sep, left to right
RECURSIVE re_split(_, _)
re_split(text, sep) ==
    IF ~Contains(text, sep) THEN <<text>>
    ELSE <<SubSeq(text, 1, Find(text, sep) - 1)>>
            \o re_split(SubSeq(text, Find(text, sep) + Len(sep), Len(text)), sep)

\* the pieces with the separator kept at the start of the piece that follows it
KeepSeparator(pieces, separator) ==
    [j \in 1..Len(pieces) |-> IF j = 1 THEN pieces[1] ELSE separator \o pieces[j]]

\* _split_text_with_regex(text, separator, keep_separator = True); the
\* separator "" cuts the text into characters; empty pieces are dropped
split_text_with_regex(text, separator) ==
    SelectSeq(IF separator = "" THEN [i \in 1..Len(text) |-> SubSeq(text, i, i)]
              ELSE KeepSeparator(re_split(text, separator), separator),
              LAMBDA s : Len(s) > 0)

\* separator.join(docs)
RECURSIVE str_join(_, _)
str_join(docs, separator) ==
    IF docs = <<>> THEN ""
    ELSE IF Len(docs) = 1 THEN docs[1]
    ELSE docs[1] \o separator \o str_join(Tail(docs), separator)

\* _join_docs(docs, separator): the stripped text, nothing when it is empty
join_docs(docs, separator) ==
    IF Len(strip(str_join(docs, separator))) = 0 THEN <<>>
    ELSE <<strip(str_join(docs, separator))>>

\* the length the separator adds when current_doc holds more than n pieces
SeparatorLen(current_doc, separator, n) ==
    IF Len(current_doc) > n THEN Len(separator) ELSE 0

\* the while loop of _merge_splits: pieces leave the front of current_doc
\* until what stays fits the overlap and leaves room for the next piece
RECURSIVE pop_front(_, _, _, _, _, _)
pop_front(current_doc, total, len, separator, chunk_size, chunk_overlap) ==
    IF \/ total > chunk_overlap
       \/ /\ total + len + SeparatorLen(current_doc, separator, 0) > chunk_size
          /\ total > 0
    THEN pop_front(Tail(current_doc),
                   total - (Len(current_doc[1]) + SeparatorLen(current_doc, separator, 1)),
                   len, separator, chunk_size, chunk_overlap)
    ELSE [current_doc |-> current_doc, total |-> total]

\* current_doc.append(d); total += len(d) + separator
Pushed(st, d, separator) ==
    [current_doc |-> Append(st.current_doc, d),
     total |-> st.total + Len(d) + SeparatorLen(Append(st.current_doc, d), separator, 1)]

\* the for loop of _merge_splits from piece i on
RECURSIVE merge_from(_, _, _, _, _, _, _)
merge_from(splits, i, docs, st, separator, chunk_size, chunk_overlap) ==
    IF i > Len(splits) THEN docs \o join_docs(st.current_doc, separator)
    ELSE IF /\ st.total + Len(splits[i]) + SeparatorLen(st.current_doc, separator, 0)
                 > chunk_size
            /\ Len(st.current_doc) > 0
    THEN merge_from(splits, i + 1, docs \o join_docs(st.current_doc, separator),
                    Pushed(pop_front(st.current_doc, st.total, Len(splits[i]), separator,
                                     chunk_size, chunk_overlap),
                           splits[i], separator),
                    separator, chunk_size, chunk_overlap)
    ELSE merge_from(splits, i + 1, docs, Pushed(st, splits[i], separator),
                    separator, chunk_size, chunk_overlap)

\* _merge_splits(splits, separator)
merge_splits(splits, separator, chunk_size, chunk_overlap) ==
    merge_from(splits, 1, <<>>, [current_doc |-> <<>>, total |-> 0],
               separator, chunk_size, chunk_overlap)

\* the separator _split_text picks: the first of the list that is "" or occurs
\* in the text (0: none does, and the last of the list is used)
PickSeparator(text, separators) ==
    IF \E i \in 1..Len(separators) : separators[i] = "" \/ Contains(text, separators[i])
    THEN CHOOSE i \in 1..Len(separators) :
            /\ separators[i] = "" \/ Contains(text, separators[i])
            /\ \A j \in 1..(i - 1) : separators[j] # "" /\ ~Contains(text, separators[j])
    ELSE 0

\* the separators left for the pieces that are still too long
NewSeparators(text, separators) ==
    IF PickSeparator(text, separators) = 0 THEN <<>>
    ELSE IF separators[PickSeparator(text, separators)] = "" THEN <<>>
    ELSE SubSeq(separators, PickSeparator(text, separators) + 1, Len(separators))

Separator(text, separators) ==
    IF PickSeparator(text, separators) = 0 THEN separators[Len(separators)]
    ELSE separators[PickSeparator(text, separators)]

\* _good_splits joined into one chunk whatever its length
Flush_joined(good_splits, chunk_size, chunk_overlap) ==
    join_docs(good_splits, "")

\* _good_splits merged (keep_separator: the pieces are joined with "")
Flush(good_splits, chunk_size, chunk_overlap) ==
    IF good_splits = <<>> THEN <<>>
    ELSE merge_splits(good_splits, "", chunk_size, chunk_overlap)

\* _split_text(text, separators) and its loop over the pieces from piece i on
RECURSIVE split_text_with(_, _, _, _)
RECURSIVE split_from(_, _, _, _, _, _, _)
split_from(splits, i, good_splits, final_chunks, new_separators, chunk_size, chunk_overlap) ==
    IF i > Len(splits) THEN final_chunks \o Flush(good_splits, chunk_size, chunk_overlap)
    ELSE IF Len(splits[i]) < chunk_size
    THEN split_from(splits, i + 1, Append(good_splits, splits[i]), final_chunks,
                    new_separators, chunk_size, chunk_overlap)
    ELSE split_from(splits, i + 1, <<>>,
                    final_chunks \o Flush(good_splits, chunk_size, chunk_overlap)
                       \o (IF new_separators = <<>> THEN <<splits[i]>>
                           ELSE split_text_with(splits[i], new_separators,
                                                chunk_size, chunk_overlap)),
                    new_separators, chunk_size, chunk_overlap)

split_text_with(text, separators, chunk_size, chunk_overlap) ==
    split_from(split_text_with_regex(text, Separator(text, separators)), 1, <<>>, <<>>,
               NewSeparators(text, separators), chunk_size, chunk_overlap)

\* text_splitter.split_text(text)
split_text(text, chunk_size, chunk_overlap) ==
    split_text_with(text, Separators, chunk_size, chunk_overlap)

\* text_splitter.split_documents(documents): every page is split on its own,
\* the chunks keep the order of the pages
RECURSIVE split_documents(_, _, _)
split_documents(documents, chunk_size, chunk_overlap) ==
    IF documents = <<>> THEN <<>>
    ELSE split_text(Head(documents), chunk_size, chunk_overlap)
            \o split_documents(Tail(documents), chunk_size, chunk_overlap)

\* lines 58-66 of load_pdf on an existing path whose loader returned documents
\* (the page texts), by a processor with the configuration p
load_pdf_with(p, file, documents) ==
    [i \in 1..Len(split_documents(documents, p.chunk_size, p.chunk_overlap)) |->
        Chunk(split_documents(documents, p.chunk_size, p.chunk_overlap)[i], i - 1, file)]

\* load_multiple_pdfs that numbers the chunks through the whole list
RECURSIVE load_multiple_pdfs_running(_)
load_multiple_pdfs_running(file_paths) ==
    IF file_paths = <<>> THEN [all_chunks |-> <<>>, printed |-> <<>>]
    ELSE [all_chunks |->
              [i \in 1..(Len(load_pdf(Head(file_paths).file, Head(file_paths).exists).chunks)
                           + Len(load_multiple_pdfs_running(Tail(file_paths)).all_chunks)) |->
                  [page_content |->
                       (load_pdf(Head(file_paths).file, Head(file_paths).exists).chunks
                          \o load_multiple_pdfs_running(Tail(file_paths)).all_chunks)[i]
                            .page_content,
                   metadata |->
                       [chunk_id |-> i - 1,
                        source_file |->
                            (load_pdf(Head(file_paths).file, Head(file_paths).exists).chunks
                               \o load_multiple_pdfs_running(Tail(file_paths)).all_chunks)[i]
                                 .metadata.source_file]]],
          printed |->
              <<[file |-> Head(file_paths).file,
                 exc |-> load_pdf(Head(file_paths).file, Head(file_paths).exists).exc,
                 chunks |-> Len(load_pdf(Head(file_paths).file,
                                         Head(file_paths).exists).chunks)]>>
                 \o load_multiple_pdfs_running(Tail(file_paths)).printed]

\* load_multiple_pdfs(file_paths): the chunks of the paths that load, in the
\* order of the list, and the line printed for every path (its chunk count or
\* its error).  A path is a file and whether it exists.
RECURSIVE load_multiple_pdfs(_)
load_multiple_pdfs(file_paths) ==
    IF file_paths = <<>> THEN [all_chunks |-> <<>>, printed |-> <<>>]
    ELSE [all_chunks |->
              load_pdf(Head(file_paths).file, Head(file_paths).exists).chunks
                 \o load_multiple_pdfs(Tail(file_paths)).all_chunks,
          printed |->
              <<[file |-> Head(file_paths).file,
                 exc |-> load_pdf(Head(file_paths).file, Head(file_paths).exists).exc,
                 chunks |-> Len(load_pdf(Head(file_paths).file,
                                         Head(file_paths).exists).chunks)]>>
                 \o load_multiple_pdfs(Tail(file_paths)).printed]

(***************************************************************************)
(* The PDFProcessor used directly, as a library: every behaviour starts    *)
(* with one pending call, drawn from the calls below, and its one step is  *)
(* the method applied to the arguments.  The index and the pipeline take   *)
(* no part; resp holds the call, then what it returned or raised.          *)
(***************************************************************************)
MaxChunkSize == 3
MaxTextLen == 4
MaxPaths == 2

\* the characters of a page: a letter and the characters of the separators
Chars == {"a", " ", "\n", "."}

RECURSIVE TextsUpTo(_)
TextsUpTo(n) ==
    IF n = 0 THEN {""}
    ELSE TextsUpTo(n - 1) \cup {t \o c : t \in TextsUpTo(n - 1), c \in Chars}

\* what loader.load() returns: the page texts of one-page documents and of
\* some two-page documents
Documents ==
    {<<t>> : t \in TextsUpTo(MaxTextLen)}
        \cup {<<t, u>> : t, u \in {"", "a", "aa a", "a\n\na.", " aaa", "b b"}}

\* the paths a caller passes: a file and whether the path exists
Paths == {[file |-> f, exists |-> e] : f \in Files \cup {"b.pdf"}, e \in BOOLEAN}

RECURSIVE PathLists(_)
PathLists(n) ==
    IF n = 0 THEN {<<>>}
    ELSE PathLists(n - 1)
            \cup {Append(s, p) : s \in {t \in PathLists(n - 1) : Len(t) = n - 1}, p \in Paths}

\* the values a caller passes for chunk_size and for chunk_overlap
SizeArgs ==
    {NotSupplied, Supplied(DEFAULT_CHUNK_SIZE)} \cup {Supplied(n) : n \in 0..MaxChunkSize}
OverlapArgs ==
    {NotSupplied, Supplied(DEFAULT_CHUNK_OVERLAP)} \cup {Supplied(n) : n \in 0..MaxChunkSize}

\* chunks of 1000, 1000 and 400 characters
Text400 == Text100 \o Text100 \o Text100 \o Text100
ExampleChunks ==
    <<Chunk(LongText \o Text400, 0, "c.pdf"), Chunk(LongText \o Text400, 1, "c.pdf"),
      Chunk(Text400, 2, "c.pdf")>>

\* the chunk lists a caller passes to get_chunk_info: what the processor produced
ChunkLists ==
    {ExampleChunks}
        \cup {load_multiple_pdfs(l).all_chunks : l \in PathLists(MaxPaths)}
        \cup {load_pdf_with(PDFProcessor(Supplied(MaxChunkSize), Supplied(1)), "c.pdf", d) :
                 d \in Documents}

Pending == "pending"
Call(op, arg) == StoreResp(op, arg, Pending, NoBody)

Calls ==
    {Call("PDFProcessor", [chunk_size |-> s, chunk_overlap |-> o]) :
        s \in SizeArgs, o \in OverlapArgs}
    \cup {Call("load_pdf", p) : p \in Paths}
    \cup {Call("load_pdf_with",
               [chunk_size |-> s, chunk_overlap |-> o, file |-> "c.pdf", documents |-> d]) :
             s \in 1..MaxChunkSize, o \in 1..MaxChunkSize, d \in Documents}
    \cup {Call("load_multiple_pdfs", l) : l \in PathLists(MaxPaths)}
    \cup {Call("get_chunk_info", c) : c \in ChunkLists}

InitProcessor ==
    /\ disk = [dirExists |-> FALSE, collAlive |-> FALSE, docs |-> <<>>]
    /\ storageOk = TRUE
    /\ vectorstore = VectorStoreInit(disk, storageOk).vectorstore
    /\ rag_pipeline = NoneObj
    /\ batch = NoneObj
    /\ resp \in Calls

\* the call of resp is pending and is a call of op
IsCall(op) == resp.op = op /\ resp.detail = Pending

\* what a method of the processor leaves behind
Returned(exc, result) ==
    /\ resp' = StoreResp(resp.op, resp.arg, exc, result)
    /\ UNCHANGED <<vectorstore, rag_pipeline, disk, storageOk, batch>>

\* PDFProcessor(chunk_size, chunk_overlap)
ProcInit ==
    /\ IsCall("PDFProcessor")
    /\ Returned(PDFProcessor(resp.arg.chunk_size, resp.arg.chunk_overlap).exc,
                PDFProcessor(resp.arg.chunk_size, resp.arg.chunk_overlap))

\* pdf_processor.load_pdf(file_path)
ProcLoadPdf ==
    /\ IsCall("load_pdf")
    /\ Returned(load_pdf(resp.arg.file, resp.arg.exists).exc,
                load_pdf(resp.arg.file, resp.arg.exists))

\* PDFProcessor(chunk_size, chunk_overlap).load_pdf(file_path), the path
\* existing and the loader returning documents
ProcLoadPdfWith ==
    /\ IsCall("load_pdf_with")
    /\ IF PDFProcessor(Supplied(resp.arg.chunk_size), Supplied(resp.arg.chunk_overlap)).exc # ""
       THEN Returned(PDFProcessor(Supplied(resp.arg.chunk_size),
                                  Supplied(resp.arg.chunk_overlap)).exc, NoBody)
       ELSE Returned("", [chunks |->
                load_pdf_with(PDFProcessor(Supplied(resp.arg.chunk_size),
                                           Supplied(resp.arg.chunk_overlap)),
                              resp.arg.file, resp.arg.documents)])

\* pdf_processor.load_multiple_pdfs(file_paths)
ProcLoadMultiplePdfs ==
    /\ IsCall("load_multiple_pdfs")
    /\ Returned("", load_multiple_pdfs(resp.arg))

\* pdf_processor.get_chunk_info(chunks)
ProcGetChunkInfo ==
    /\ IsCall("get_chunk_info")
    /\ Returned("", get_chunk_info(resp.arg))

NextProcessor ==
    \/ ProcInit
    \/ ProcLoadPdf
    \/ ProcLoadPdfWith
    \/ ProcLoadMultiplePdfs
    \/ ProcGetChunkInfo

SpecProcessor == InitProcessor /\ [][NextProcessor]_vars

(***************************************************************************)
(* Properties of the processor, under SpecProcessor.  resp.detail is       *)
(* Pending until the call has returned or raised.                          *)
(***************************************************************************)
\* C16: load_pdf on a path that does not resolve raises FileNotFoundError before
\* the loader or the splitter is called, produces no chunk, and leaves the
\* index and the pipeline as they were.
C16_MissingPathFails ==
    (resp.op = "load_pdf" /\ resp.detail # Pending /\ ~resp.arg.exists) =>
        /\ resp.detail = "FileNotFoundError"
        /\ resp.body.calls = <<>>
        /\ resp.body.chunks = <<>>
        /\ vectorstore = None /\ disk.docs = <<>> /\ rag_pipeline = NoneObj

C16_Witness ==
    /\ resp.op = "load_pdf" /\ resp.arg.file = "a.pdf" /\ ~resp.arg.exists
    /\ resp.detail = "FileNotFoundError"

\* the chunks are numbered 0, 1, ... in their order and carry the file
Numbered(chunks, file) ==
    \A i \in 1..Len(chunks) :
        chunks[i].metadata.chunk_id = i - 1 /\ chunks[i].metadata.source_file = file

\* the number of chunks printed for the paths before path k
RECURSIVE Offset(_, _)
Offset(printed, k) ==
    IF k = 1 THEN 0 ELSE Offset(printed, k - 1) + printed[k - 1].chunks

\* C17: the chunks of a document carry chunk_id 0..n-1 in document order and the
\* document's file as source_file; in load_multiple_pdfs the numbering starts
\* again at 0 with every document.
C17_ChunkIds ==
    /\ (resp.op \in {"load_pdf", "load_pdf_with"} /\ resp.detail = "") =>
           Numbered(resp.body.chunks, resp.arg.file)
    /\ (resp.op = "load_multiple_pdfs" /\ resp.detail = "") =>
           /\ Len(resp.body.printed) = Len(resp.arg)
           /\ Len(resp.body.all_chunks)
                = Offset(resp.body.printed, Len(resp.arg) + 1)
           /\ \A k \in 1..Len(resp.arg) :
                 /\ resp.body.printed[k].file = resp.arg[k].file
                 /\ Numbered(SubSeq(resp.body.all_chunks,
                                    Offset(resp.body.printed, k) + 1,
                                    Offset(resp.body.printed, k + 1)),
                             resp.arg[k].file)

C17_Witness ==
    /\ resp.op = "load_multiple_pdfs" /\ resp.detail = ""
    /\ Len(resp.arg) = 2 /\ resp.arg[1].file = "a.pdf" /\ resp.arg[2].file = "b.pdf"
    /\ Len(resp.body.all_chunks) = 5
    /\ resp.body.all_chunks[4].metadata.chunk_id = 0
    /\ resp.body.all_chunks[5].metadata = [chunk_id |-> 1, source_file |-> "b.pdf"]

\* the characters of the first n chunks
RECURSIVE CharsOf(_, _)
CharsOf(chunks, n) ==
    IF n = 0 THEN 0 ELSE CharsOf(chunks, n - 1) + Len(chunks[n].page_content)

\* C18: get_chunk_info reports the number of chunks, the sum of their lengths
\* and the floor of their quotient (3, 2400 and 800 for chunks of 1000, 1000
\* and 400 characters); for no chunk all three are 0.
C18_ChunkInfo ==
    (resp.op = "get_chunk_info" /\ resp.detail = "") =>
        /\ resp.body.total_chunks = Len(resp.arg)
        /\ resp.body.total_chars = CharsOf(resp.arg, Len(resp.arg))
        /\ resp.body.avg_chunk_size * Len(resp.arg) <= resp.body.total_chars
        /\ resp.arg # <<>> =>
               resp.body.total_chars < (resp.body.avg_chunk_size + 1) * Len(resp.arg)
        /\ resp.arg = <<>> => resp.body.avg_chunk_size = 0
        /\ resp.arg = ExampleChunks =>
               /\ resp.body.total_chunks = 3
               /\ resp.body.total_chars = 2400
               /\ resp.body.avg_chunk_size = 800

C18_Witness ==
    /\ resp.op = "get_chunk_info" /\ resp.detail = ""
    /\ resp.arg = ExampleChunks /\ resp.body.avg_chunk_size = 800

\* C19: a processor built with explicit chunk_size s and chunk_overlap o,
\* 0 <= o < s, holds exactly s and o, o = 0 included.
C19_ExplicitConfigUsed ==
    (/\ resp.op = "PDFProcessor" /\ resp.detail # Pending
     /\ resp.arg.chunk_size # NotSupplied /\ resp.arg.chunk_overlap # NotSupplied
     /\ 0 <= resp.arg.chunk_overlap[1]
     /\ resp.arg.chunk_overlap[1] < resp.arg.chunk_size[1]) =>
        /\ resp.detail = ""
        /\ resp.body.chunk_size = resp.arg.chunk_size[1]
        /\ resp.body.chunk_overlap = resp.arg.chunk_overlap[1]

\* no separator of the splitter can cut the text
Unsplittable(text) ==
    \A i \in 1..Len(Separators) : Separators[i] # "" /\ ~Contains(text, Separators[i])

\* C20: every chunk is at most chunk_size characters long, unless it is one
\* token that no separator can split.
C20_ChunkWithinSize ==
    (resp.op = "load_pdf_with" /\ resp.detail = "") =>
        \A i \in 1..Len(resp.body.chunks) :
            \/ Len(resp.body.chunks[i].page_content) <= resp.arg.chunk_size
            \/ Unsplittable(resp.body.chunks[i].page_content)

C20_Witness ==
    /\ resp.op = "load_pdf_with" /\ resp.detail = ""
    /\ resp.arg.chunk_size = 2 /\ resp.arg.documents = <<"aaaa">>
    /\ Len(resp.body.chunks) > 1
    /\ \A i \in 1..Len(resp.body.chunks) : Len(resp.body.chunks[i].page_content) = 2

\* the length of the longest suffix of a that is a prefix of b
LongestOverlap(a, b) ==
    LET S == {n \in 1..Min(Len(a), Len(b)) : SubSeq(a, Len(a) - n + 1, Len(a)) = SubSeq(b, 1, n)}
    IN  IF S = {} THEN 0 ELSE CHOOSE n \in S : \A m \in S : m <= n

\* C21: adjacent chunks of one document, pairs across a page boundary included,
\* share exactly chunk_overlap characters: the longest suffix of the earlier
\* chunk that is a prefix of the later one has that length.
C21_OverlapExact ==
    (resp.op = "load_pdf_with" /\ resp.detail = "") =>
        \A i \in 1..(Len(resp.body.chunks) - 1) :
            LongestOverlap(resp.body.chunks[i].page_content,
                           resp.body.chunks[i + 1].page_content) = resp.arg.chunk_overlap

\* the retrieval of the chat request of resp could not be done: the embedding
\* capability failed, or the storage, or the pipeline holds no live handle
RetrievalFailed ==
    /\ resp.op = "chat" /\ rag_pipeline # NoneObj
    /\ (~resp.arg.embOk \/ ~storageOk \/ rag_pipeline.vectorstore # Cur)

\* C23: a failure of the embedding capability or of the index during RETRIEVE
\* ends the query with an error: GENERATE does not run, the completion
\* capability is not called, no fallback answer is produced, and the request
\* changes neither the index nor the pipeline.
C23_RetrievalFailureFatal ==
    [][(resp'.op = "chat" /\ rag_pipeline # NoneObj
          /\ (~resp'.arg.embOk \/ ~storageOk \/ rag_pipeline.vectorstore # Cur)) =>
            /\ resp'.code = 500
            /\ resp'.body = NoBody
            /\ resp'.run.trace = <<"START", "RETRIEVE">>
            /\ resp'.run.llmCalls = 0 /\ ~resp'.run.fallback
            /\ UNCHANGED <<vectorstore, rag_pipeline, disk>>]_vars

C23_Witness ==
    /\ RetrievalFailed /\ ~resp.arg.embOk /\ resp.code = 500
    /\ resp.detail = "Error generating answer: CapabilityError"
    /\ rag_pipeline.llm # None
    /\ disk.docs # <<>>

\* the texts similarity_search returns for the question, in its order
Retrieved(question, embOk) ==
    [n \in 1..Len(ChromaSearch(rag_pipeline.vectorstore, disk, question, TOP_K_RESULTS,
                               storageOk, embOk).docs) |->
        ChromaSearch(rag_pipeline.vectorstore, disk, question, TOP_K_RESULTS,
                     storageOk, embOk).docs[n].page_content]

\* C24: a /chat request, whether it succeeds, falls back or fails, leaves the
\* store handle, the stored chunks (texts and metadata) and the pipeline as
\* they were; an answered query holds the retrieval of its own question only.
C24_QueryReadOnly ==
    [][resp'.op = "chat" =>
          /\ UNCHANGED <<vectorstore, disk, rag_pipeline>>
          /\ resp'.code = 200 =>
                resp'.run.context = Retrieved(resp'.arg.question, resp'.arg.embOk)]_vars

C24_Witness ==
    /\ resp.op = "chat" /\ resp.code = 200
    /\ \E n \in 1..Len(resp.body.sources) :
          /\ Len(resp.run.context[n]) > SourceLen
          /\ Len(resp.body.sources[n].content) = SourceLen + 3
          /\ \E i \in 1..Len(disk.docs) : disk.docs[i].page_content = resp.run.context[n]

\* the content of a source as the query contract describes it: at most
\* SourceLen characters of the text, the marker "..." telling that text was cut
TruncatedWithMarker(text) ==
    IF Len(text) <= SourceLen THEN text ELSE SubSeq(text, 1, SourceLen) \o "..."

\* C25: the sources of a query response have one entry per retrieved chunk, in
\* its order; the content of an entry is the chunk's text when it has at most
\* 200 characters, and its first 200 characters followed by "..." otherwise.
C25_SourceTruncation ==
    (resp.op = "chat" /\ resp.code = 200) =>
        /\ Len(resp.body.sources) = Len(resp.run.context)
        /\ \A n \in 1..Len(resp.body.sources) :
              resp.body.sources[n].content = TruncatedWithMarker(resp.run.context[n])

\* the first n texts, in their order, with a blank line between two of them
RECURSIVE BlankLineJoined(_, _)
BlankLineJoined(texts, n) ==
    IF n = 0 THEN ""
    ELSE IF n = 1 THEN texts[1]
    ELSE BlankLineJoined(texts, n - 1) \o "\n\n" \o texts[n]

\* the chunks similarity_search returns for the question of the response
RetrievedDocs ==
    ChromaSearch(rag_pipeline.vectorstore, disk, resp.arg.question, TOP_K_RESULTS,
                 storageOk, resp.arg.embOk).docs

\* C26: the chunks keep the order in which the index returned them, most
\* similar first: the prompt given to the completion capability holds their
\* texts joined by blank lines in that order, and the sources of the response
\* list them in that order.
C26_OrderPreserved ==
    (resp.op = "chat" /\ resp.code = 200) =>
        /\ Len(resp.body.sources) = Len(RetrievedDocs)
        /\ \A n \in 1..Len(RetrievedDocs) :
              /\ resp.body.sources[n].metadata = RetrievedDocs[n].metadata
              /\ resp.body.sources[n].content
                   = Slice(RetrievedDocs[n].page_content, SourceLen) \o "..."
              /\ resp.run.context[n] = RetrievedDocs[n].page_content
        /\ \A n \in 1..(Len(RetrievedDocs) - 1) :
              Similarity(resp.arg.question, RetrievedDocs[n].page_content)
                 >= Similarity(resp.arg.question, RetrievedDocs[n + 1].page_content)
        /\ resp.run.llmCalls = 1 =>
              resp.run.prompt
                 = create_prompt(BlankLineJoined(resp.run.context, Len(resp.run.context)),
                                 resp.arg.question)

C26_Witness ==
    /\ resp.op = "chat" /\ resp.code = 200 /\ resp.run.llmCalls = 1 /\ ~resp.run.fallback
    /\ Len(resp.body.sources) = 3
    /\ resp.run.context = <<"beta", LongText, "X is a protocol for Y">>
    /\ resp.body.sources[1].metadata.chunk_id = 2

\* C27: whenever the pipeline exists, the store handle it retrieves from is
\* the handle the vector store currently holds.
C27_PipelineOnCurrentStore ==
    rag_pipeline # NoneObj => rag_pipeline.vectorstore = vectorstore

\* C28: a batch ingest that ends with an error is not rolled back.  The step
\* that fails removes no stored chunk and builds no pipeline; every step that
\* processed a document before it appended that document's chunks and built no
\* pipeline either.
C28_BatchNotRolledBack ==
    [][/\ (resp'.op = "upload_multiple_pdfs" /\ resp'.code = 500) =>
              /\ IsPrefix(disk.docs, disk'.docs)
              /\ rag_pipeline' = rag_pipeline
       /\ (batch' # NoneObj /\ batch' # batch) =>
              /\ disk'.docs
                   = disk.docs
                       \o load_pdf(batch'.processed_files[Len(batch'.processed_files)],
                                   TRUE).chunks
              /\ rag_pipeline' = rag_pipeline]_vars

C28_Witness ==
    /\ resp.op = "upload_multiple_pdfs" /\ resp.code = 500
    /\ resp.arg = <<"a.pdf", "bad.pdf">>
    /\ resp.run.processed_files = <<"a.pdf">>
    /\ disk.docs = load_pdf("a.pdf", TRUE).chunks
    /\ get_store_info(vectorstore, disk, storageOk).document_count = 3
    /\ rag_pipeline = NoneObj

=============================================================================
